---------------------------- MODULE Spec2Model ----------------------------
(***************************************************************************)
(* A model of the SipHash implementation of src/src/crypto/sip.rs          *)
(* (HashBase<S>, SipHasher13, SipHasher24).                                *)
(*                                                                         *)
(* A u64 / usize value is a sequence of 8 bytes, least significant byte    *)
(* first (the model is of a 64-bit target; TLC's integers are 32 bits      *)
(* wide, so the 64-bit operations of the code are carried out bytewise and *)
(* keep their width: every addition is modulo 2^64, every shift and rotate *)
(* drops or wraps the bits a u64 drops or wraps).                          *)
(*                                                                         *)
(* TLC passes operator arguments and LET definitions unevaluated and may   *)
(* compute them again at every use.  On(x, F) and On2(x, y, F) compute     *)
(* their arguments once and apply F to the values; the operators below use *)
(* them wherever the code stores a value in a local or a field.            *)
(***************************************************************************)
EXTENDS Integers, Sequences, FiniteSets, TLC

VARIABLES
    S,                \* the marker type of HashBase<S>: "Sip13Rounds" or "Sip24Rounds"
    hasher,           \* the HashBase fields: k0, k1, length, state, tail, ntail
    overflow_checks,  \* build profile: is `+=` on usize compiled with overflow checks
    panicked,         \* a call has panicked (the thread unwinds)
    input,            \* ghost: the bytes the caller is going to feed, in order
    pos,              \* ghost: how many bytes of input have been fed so far
    base,             \* ghost: the length field of the state the behaviour starts in
    last,             \* ghost: the last completed call, "new" | "write" | "short_write" | "finish"
    ret,              \* ghost: the value returned by the last finish call
    ref,              \* ghost: the lanes as the round's definition over bit vectors gives them
    other,            \* a second hasher instance (a clone) with, as ghosts, what it was fed
    event,            \* the fields of a reset event behind its mutex, and ghost counters
    threads,          \* per thread: where it is in its call, its locals, its last result
    once,             \* core: the state of the static INITIALIZED, and ghost history
    util              \* the last call of a function of cmp, of BitField or of the sip loads

vars == <<S, hasher, overflow_checks, panicked, input, pos, base, last, ret, ref,
          other, event, threads, once, util>>

\* the hashers of crypto::sip
sipVars == <<S, hasher, overflow_checks, panicked, input, pos, base, last, ret, ref, other>>

\* the reset events of sync
syncVars == <<event, threads>>

\* what a behaviour that does not use it holds in a variable
Unused == <<>>

-----------------------------------------------------------------------------
(* evaluation helpers                                                       *)

On(x, F(_)) == CHOOSE r \in {F(v) : v \in {x}} : TRUE

On2(x, y, F(_, _)) == CHOOSE r \in {F(v, w) : v \in {x}, w \in {y}} : TRUE

-----------------------------------------------------------------------------
(* u64 primitives                                                           *)

\* the word whose byte i is F(i)
Word(F(_)) == <<F(1), F(2), F(3), F(4), F(5), F(6), F(7), F(8)>>

Zero64 == <<0, 0, 0, 0, 0, 0, 0, 0>>

\* 2^n for 0 <= n <= 8
Pow2(n) == CASE n = 0 -> 1 [] n = 1 -> 2 [] n = 2 -> 4 [] n = 3 -> 8 [] n = 4 -> 16
             [] n = 5 -> 32 [] n = 6 -> 64 [] n = 7 -> 128 [] OTHER -> 256

RECURSIVE XorBits(_, _, _)
XorBits(a, b, n) ==
    IF n = 0 THEN 0
    ELSE (((a % 2) + (b % 2)) % 2) + 2 * XorBits(a \div 2, b \div 2, n - 1)

RECURSIVE OrBits(_, _, _)
OrBits(a, b, n) ==
    IF n = 0 THEN 0
    ELSE (IF (a % 2) + (b % 2) > 0 THEN 1 ELSE 0) + 2 * OrBits(a \div 2, b \div 2, n - 1)

XorNibble == [a \in 0..15 |-> [b \in 0..15 |-> XorBits(a, b, 4)]]

OrNibble == [a \in 0..15 |-> [b \in 0..15 |-> OrBits(a, b, 4)]]

AndNibble == [a \in 0..15 |-> [b \in 0..15 |-> a + b - OrBits(a, b, 4)]]

Xor8(a, b) == 16 * XorNibble[a \div 16][b \div 16] + XorNibble[(a % 16)][(b % 16)]

Or8(a, b) == 16 * OrNibble[a \div 16][b \div 16] + OrNibble[(a % 16)][(b % 16)]

And8(a, b) == 16 * AndNibble[a \div 16][b \div 16] + AndNibble[(a % 16)][(b % 16)]

\* a ^ b on u64
BitXor(a, b) == On2(a, b, LAMBDA x, y : Word(LAMBDA i : Xor8(x[i], y[i])))

\* a | b on u64
BitOr(a, b) == On2(a, b, LAMBDA x, y : Word(LAMBDA i : Or8(x[i], y[i])))

\* a & b on u64
BitAnd(a, b) == On2(a, b, LAMBDA x, y : Word(LAMBDA i : And8(x[i], y[i])))

Min(a, b) == IF a < b THEN a ELSE b

\* the byte of w at index i (1..8), 0 outside the word
ByteAt(w, i) == IF i >= 1 /\ i <= 8 THEN w[i] ELSE 0

\* a << n on u64, 0 <= n < 64: the bits shifted past bit 63 are dropped
Shl(a, n) ==
    On2(a, n, LAMBDA w, m :
        Word(LAMBDA i :
            ((ByteAt(w, i - (m \div 8)) * Pow2(m % 8)) % 256)
            + (ByteAt(w, i - (m \div 8) - 1) \div Pow2(8 - (m % 8)))))

\* u64::rotate_left(n), 0 <= n < 64: the bits shifted past bit 63 come back at bit 0
rotate_left(a, n) ==
    On2(a, n, LAMBDA w, m :
        Word(LAMBDA i :
            ((w[((i - (m \div 8) - 1) % 8) + 1] * Pow2(m % 8)) % 256)
            + (w[((i - (m \div 8) - 2) % 8) + 1] \div Pow2(8 - (m % 8)))))

\* the carry into byte i of x + y
RECURSIVE CarryIn(_, _, _)
CarryIn(x, y, i) ==
    IF i = 1 THEN 0 ELSE (x[i - 1] + y[i - 1] + CarryIn(x, y, i - 1)) \div 256

\* an addition that stops at u64::MAX instead of wrapping
saturating_add(a, b) ==
    On2(a, b, LAMBDA x, y :
        IF CarryIn(x, y, 9) = 1 THEN Word(LAMBDA i : 255)
        ELSE Word(LAMBDA i : (x[i] + y[i] + CarryIn(x, y, i)) % 256))

\* u64::wrapping_add: the sum modulo 2^64
wrapping_add(a, b) ==
    On2(a, b, LAMBDA x, y : Word(LAMBDA i : (x[i] + y[i] + CarryIn(x, y, i)) % 256))

\* a + b does not fit 64 bits
AddOverflows(a, b) == On2(a, b, LAMBDA x, y : CarryIn(x, y, 9) = 1)

\* a number below 2^24 as a usize
ToUsize(n) == Word(LAMBDA i : IF i <= 3 THEN (n \div (Pow2(8)^(i - 1))) % 256 ELSE 0)

\* a 64-bit literal written most significant byte first, as in the source text
U64Lit(bytes) == Word(LAMBDA i : bytes[9 - i])

-----------------------------------------------------------------------------
(* struct State and the compression round                                   *)

\* statement k of compress!($v0, $v1, $v2, $v3), on the lanes v
compress_stmt(k, v) ==
    CASE k = 1  -> [v EXCEPT !.v0 = wrapping_add(v.v0, v.v1)]
      [] k = 2  -> [v EXCEPT !.v1 = rotate_left(v.v1, 13)]
      [] k = 3  -> [v EXCEPT !.v1 = BitXor(v.v1, v.v0)]
      [] k = 4  -> [v EXCEPT !.v0 = rotate_left(v.v0, 32)]
      [] k = 5  -> [v EXCEPT !.v2 = wrapping_add(v.v2, v.v3)]
      [] k = 6  -> [v EXCEPT !.v3 = rotate_left(v.v3, 16)]
      [] k = 7  -> [v EXCEPT !.v3 = BitXor(v.v3, v.v2)]
      [] k = 8  -> [v EXCEPT !.v0 = wrapping_add(v.v0, v.v3)]
      [] k = 9  -> [v EXCEPT !.v3 = rotate_left(v.v3, 21)]
      [] k = 10 -> [v EXCEPT !.v3 = BitXor(v.v3, v.v0)]
      [] k = 11 -> [v EXCEPT !.v2 = wrapping_add(v.v2, v.v1)]
      [] k = 12 -> [v EXCEPT !.v1 = rotate_left(v.v1, 17)]
      [] k = 13 -> [v EXCEPT !.v1 = BitXor(v.v1, v.v2)]
      [] k = 14 -> [v EXCEPT !.v2 = rotate_left(v.v2, 32)]

\* the statements k .. 14 of the macro, in order
RECURSIVE compress_from(_, _)
compress_from(k, v) ==
    IF k > 14 THEN v
    ELSE On2(k + 1, compress_stmt(k, v), LAMBDA k1, v1 : compress_from(k1, v1))

\* compress!($state): one round on the four lanes
compress(st) == On(st, LAMBDA v : compress_from(1, v))

\* one compression round per word whatever the variant
c_rounds_single(s, st) == compress(st)

\* Sip::c_rounds for the two implementors of the trait
c_rounds(s, st) ==
    IF s = "Sip13Rounds" THEN compress(st)
    ELSE compress(compress(st))

\* finalization with three rounds whatever the variant
d_rounds_three(s, st) == compress(compress(compress(st)))

\* Sip::d_rounds for the two implementors of the trait
d_rounds(s, st) ==
    IF s = "Sip13Rounds" THEN compress(compress(compress(st)))
    ELSE compress(compress(compress(compress(st))))

-----------------------------------------------------------------------------
(* loads                                                                    *)

\* load_int_le!(buf, i, int_ty) as u64, size = size_of::<int_ty>(): the bytes
\* buf[i .. i + size] (0-based), the first one least significant
load_int_le(buf, i, size) ==
    On2(buf, i, LAMBDA b, k : Word(LAMBDA j : IF j <= size THEN b[k + j] ELSE 0))

\* the three pieces of u8to64_le in order; a is the pair of locals (out, i)
u8to64_le_piece(n, a, buf, start, len) ==
    CASE n = 4 ->
            IF a.i + 3 < len
            THEN [out |-> load_int_le(buf, start + a.i, 4), i |-> a.i + 4]
            ELSE a
      [] n = 2 ->
            IF a.i + 1 < len
            THEN [out |-> BitOr(a.out, Shl(load_int_le(buf, start + a.i, 2), a.i * 8)),
                  i |-> a.i + 2]
            ELSE a
      [] n = 1 ->
            IF a.i < len
            THEN [out |-> BitOr(a.out, Shl(<<buf[start + a.i + 1], 0, 0, 0, 0, 0, 0, 0>>,
                                           a.i * 8)),
                  i |-> a.i + 1]
            ELSE a

\* the locals (out, i) of u8to64_le(buf, start, len) when it returns
u8to64_le_run(buf, start, len) ==
    On2(buf, <<start, len>>, LAMBDA b, sl :
        On(u8to64_le_piece(4, [out |-> Zero64, i |-> 0], b, sl[1], sl[2]), LAMBDA a4 :
        On(u8to64_le_piece(2, a4, b, sl[1], sl[2]), LAMBDA a2 :
           u8to64_le_piece(1, a2, b, sl[1], sl[2]))))

\* u8to64_le(buf, start, len): up to 7 bytes of buf, the first one least significant
u8to64_le(buf, start, len) == u8to64_le_run(buf, start, len).out

\* load_int_le!: debug_assert!($i + size_of::<$int_ty>() <= $buf.len())
load_int_le_asserts(buf, i, size) == i + size <= Len(buf)

\* u8to64_le: debug_assert!(len < 8), the debug_assert of each load it makes, the
\* single-byte read inside the slice, and debug_assert_eq!(i, len)
u8to64_le_asserts(buf, start, len) ==
    /\ len < 8
    /\ (3 < len => load_int_le_asserts(buf, start, 4))
    /\ start + len <= Len(buf)
    /\ u8to64_le_run(buf, start, len).i = len

-----------------------------------------------------------------------------
(* HashBase<S>                                                              *)

\* a reset that gives v1 and v2 each other's constant
reset_swapped(self) ==
    [self EXCEPT
        !.length = Zero64,
        !.state = [v0 |-> BitXor(self.k0, U64Lit(<<115, 111, 109, 101, 112, 115, 101, 117>>)),
                   v1 |-> BitXor(self.k1, U64Lit(<<108, 121, 103, 101, 110, 101, 114,  97>>)),
                   v2 |-> BitXor(self.k0, U64Lit(<<100, 111, 114,  97, 110, 100, 111, 109>>)),
                   v3 |-> BitXor(self.k1, U64Lit(<<116, 101, 100,  98, 121, 116, 101, 115>>))],
        !.ntail = 0]

\* HashBase::reset
reset(self) ==
    [self EXCEPT
        !.length = Zero64,
        !.state = [v0 |-> BitXor(self.k0, U64Lit(<<115, 111, 109, 101, 112, 115, 101, 117>>)),
                   v1 |-> BitXor(self.k1, U64Lit(<<100, 111, 114,  97, 110, 100, 111, 109>>)),
                   v2 |-> BitXor(self.k0, U64Lit(<<108, 121, 103, 101, 110, 101, 114,  97>>)),
                   v3 |-> BitXor(self.k1, U64Lit(<<116, 101, 100,  98, 121, 116, 101, 115>>))],
        !.ntail = 0]

\* HashBase::new_with_keys
new_with_keys(key0, key1) ==
    reset([k0 |-> key0, k1 |-> key1, length |-> Zero64,
           state |-> [v0 |-> Zero64, v2 |-> Zero64, v1 |-> Zero64, v3 |-> Zero64],
           tail |-> Zero64, ntail |-> 0])

\* a word folded in with the two xors the wrong way round
absorb_swapped(s, st, m) ==
    On2(st, m, LAMBDA v, w :
        On(c_rounds(s, [v EXCEPT !.v0 = BitXor(v.v0, w)]), LAMBDA r :
           [r EXCEPT !.v3 = BitXor(r.v3, w)]))

\* one message word: state.v3 ^= m; S::c_rounds(&mut state); state.v0 ^= m
absorb(s, st, m) ==
    On2(st, m, LAMBDA v, w :
        On(c_rounds(s, [v EXCEPT !.v3 = BitXor(v.v3, w)]), LAMBDA r :
           [r EXCEPT !.v0 = BitXor(r.v0, w)]))

\* a main loop that stops one word early: while i + 8 < bound
RECURSIVE write_loop_stops_early(_, _, _, _, _)
write_loop_stops_early(s, st, data, i, bound) ==
    IF i + 8 < bound
    THEN On2(absorb(s, st, load_int_le(data, i, 8)), i + 8, LAMBDA st1, i1 :
             write_loop_stops_early(s, st1, data, i1, bound))
    ELSE [state |-> st, i |-> i]

\* the main loop of write: while i < bound { load a word at i; absorb it; i += 8 }
RECURSIVE write_loop(_, _, _, _, _)
write_loop(s, st, data, i, bound) ==
    IF i < bound
    THEN On2(absorb(s, st, load_int_le(data, i, 8)), i + 8, LAMBDA st1, i1 :
             write_loop(s, st1, data, i1, bound))
    ELSE [state |-> st, i |-> i]

\* a tail fill that forgets the bytes already buffered: no shift by 8 * ntail
write_fill_unshifted(h, d, length, needed) ==
    BitOr(h.tail, u8to64_le(d, 0, Min(length, needed)))

\* a fill that assigns the new bytes to the tail instead of or-ing them in
write_fill_overwrites(h, d, length, needed) ==
    Shl(u8to64_le(d, 0, Min(length, needed)), 8 * h.ntail)

\* write: self.tail |= u8to64_le(data, 0, min(length, needed)) << 8 * self.ntail
write_fill(h, d, length, needed) ==
    BitOr(h.tail, Shl(u8to64_le(d, 0, Min(length, needed)), 8 * h.ntail))

\* a remainder taken with the mask 0xf
write_left_wide(len) == BitAnd(ToUsize(len), ToUsize(15))[1]

\* write: let left = len & 0x7
write_left(len) == BitAnd(ToUsize(len), ToUsize(7))[1]

\* `self.length += length` overflows usize
length_overflows(self, n) == AddOverflows(self.length, ToUsize(n))

\* a write whose early return leaves the tail count as it was
write_keeps_count(s, self, data) ==
    On2(self, data, LAMBDA h, d :
        LET length  == Len(d)
            length1 == wrapping_add(h.length, ToUsize(length))
            pending == h.ntail # 0
            needed  == IF pending THEN 8 - h.ntail ELSE 0
            tail1   == IF pending THEN write_fill(h, d, length, needed) ELSE h.tail
        IN  IF pending /\ length < needed
            THEN [h EXCEPT !.length = length1, !.tail = tail1]
            ELSE LET len  == length - needed
                     left == write_left(len)
                 IN  On(IF pending THEN absorb(s, h.state, tail1) ELSE h.state, LAMBDA st1 :
                     On(write_loop(s, st1, d, needed, len - left), LAMBDA loop :
                        [h EXCEPT
                            !.length = length1,
                            !.state = loop.state,
                            !.tail = u8to64_le(d, loop.i, left),
                            !.ntail = left])))

\* HashBase::write, for a call that does not panic
write(s, self, data) ==
    On2(self, data, LAMBDA h, d :
        LET length  == Len(d)
            length1 == wrapping_add(h.length, ToUsize(length))
            pending == h.ntail # 0
            needed  == IF pending THEN 8 - h.ntail ELSE 0
            tail1   == IF pending THEN write_fill(h, d, length, needed) ELSE h.tail
        IN  IF pending /\ length < needed
            THEN \* the early return: still short of a word
                 [h EXCEPT !.length = length1, !.tail = tail1, !.ntail = h.ntail + length]
            ELSE LET len  == length - needed
                     left == write_left(len)
                 IN  On(IF pending THEN absorb(s, h.state, tail1) ELSE h.state, LAMBDA st1 :
                     On(write_loop(s, st1, d, needed, len - left), LAMBDA loop :
                        [h EXCEPT
                            !.length = length1,
                            !.state = loop.state,
                            !.tail = u8to64_le(d, loop.i, left),
                            !.ntail = left])))

\* what HashBase::write needs in order not to trap, apart from `self.length += length`:
\* no subtraction below 0, no shift by 64 or more, and the debug assertions of its loads
write_asserts(self, data) ==
    LET length == Len(data)
        needed == IF self.ntail # 0 THEN 8 - self.ntail ELSE 0
        len    == length - needed
        left   == write_left(len)
        words  == (len - left) \div 8
    IN  /\ self.ntail <= 8
        /\ self.ntail # 0 =>
              /\ u8to64_le_asserts(data, 0, Min(length, needed))
              /\ 8 * self.ntail < 64
        /\ ~(self.ntail # 0 /\ length < needed) =>
              /\ len >= 0
              /\ len - left >= 0
              /\ \A j \in 0..(words - 1) : load_int_le_asserts(data, needed + 8 * j, 8)
              /\ u8to64_le_asserts(data, needed + 8 * words, left)

\* the same for HashBase::short_write, with its debug_assert!(msg.len() <= 8)
short_write_asserts(self, msg) ==
    LET length == Len(msg)
        needed == 8 - self.ntail
        fill   == Min(length, needed)
    IN  /\ length <= 8
        /\ self.ntail <= 8
        /\ IF fill = 8 THEN load_int_le_asserts(msg, 0, 8)
           ELSE u8to64_le_asserts(msg, 0, fill) /\ 8 * self.ntail < 64
        /\ ~(fill # 8 /\ length < needed) =>
              /\ length - needed >= 0
              /\ u8to64_le_asserts(msg, needed, length - needed)

\* a short_write that drops the bytes left over after the flush
short_write_drops_rest(s, self, msg) ==
    On2(self, msg, LAMBDA h, m :
        LET length  == Len(m)
            length1 == wrapping_add(h.length, ToUsize(length))
            needed  == 8 - h.ntail
            fill    == Min(length, needed)
            tail1   == IF fill = 8
                       THEN load_int_le(m, 0, 8)
                       ELSE BitOr(h.tail, Shl(u8to64_le(m, 0, fill), 8 * h.ntail))
        IN  IF fill # 8 /\ length < needed
            THEN [h EXCEPT !.length = length1, !.tail = tail1, !.ntail = h.ntail + length]
            ELSE [h EXCEPT
                    !.length = length1,
                    !.state = absorb(s, h.state, tail1),
                    !.ntail = length - needed,
                    !.tail = Zero64])

\* a short_write that keeps the flushed word as its tail
short_write_keeps_tail(s, self, msg) ==
    On2(self, msg, LAMBDA h, m :
        LET length  == Len(m)
            length1 == wrapping_add(h.length, ToUsize(length))
            needed  == 8 - h.ntail
            fill    == Min(length, needed)
            tail1   == IF fill = 8
                       THEN load_int_le(m, 0, 8)
                       ELSE BitOr(h.tail, Shl(u8to64_le(m, 0, fill), 8 * h.ntail))
        IN  IF fill # 8 /\ length < needed
            THEN [h EXCEPT !.length = length1, !.tail = tail1, !.ntail = h.ntail + length]
            ELSE [h EXCEPT
                    !.length = length1,
                    !.state = absorb(s, h.state, tail1),
                    !.ntail = length - needed,
                    !.tail = tail1])

\* HashBase::short_write, for a call that does not panic (msg.len() <= 8)
short_write(s, self, msg) ==
    On2(self, msg, LAMBDA h, m :
        LET length  == Len(m)
            length1 == wrapping_add(h.length, ToUsize(length))
            needed  == 8 - h.ntail
            fill    == Min(length, needed)
            tail1   == IF fill = 8
                       THEN load_int_le(m, 0, 8)
                       ELSE BitOr(h.tail, Shl(u8to64_le(m, 0, fill), 8 * h.ntail))
        IN  IF fill # 8 /\ length < needed
            THEN [h EXCEPT !.length = length1, !.tail = tail1, !.ntail = h.ntail + length]
            ELSE [h EXCEPT
                    !.length = length1,
                    !.state = absorb(s, h.state, tail1),
                    !.ntail = length - needed,
                    !.tail = u8to64_le(m, needed, length - needed)])

\* HashBase::write_u8
write_u8(s, self, i) == short_write(s, self, <<i>>)

\* HashBase::write_usize: the 8 bytes of i as they lie in memory (little-endian target)
write_usize(s, self, i) == short_write(s, self, Word(LAMBDA j : i[j]))

\* a finalization word with the length byte left in the low byte
finish_word_low(h) ==
    BitOr(BitAnd(h.length, U64Lit(<<0, 0, 0, 0, 0, 0, 0, 255>>)), h.tail)

\* finish: let b: u64 = ((self.length as u64 & 0xff) << 56) | self.tail
finish_word(h) ==
    BitOr(Shl(BitAnd(h.length, U64Lit(<<0, 0, 0, 0, 0, 0, 0, 255>>)), 56), h.tail)

\* a finish that runs the rounds of SipHash-2-4 whatever the variant
finish_as_24(s, self) ==
    On(self, LAMBDA h :
    On(finish_word(h), LAMBDA b :
    On(absorb("Sip24Rounds", h.state, b), LAMBDA st1 :
    On(d_rounds("Sip24Rounds",
                [st1 EXCEPT !.v2 = BitXor(st1.v2, U64Lit(<<0, 0, 0, 0, 0, 0, 0, 255>>))]),
       LAMBDA st3 :
       BitXor(BitXor(BitXor(st3.v0, st3.v1), st3.v2), st3.v3)))))

\* HashBase::finish: the digest; works on a copy of the lanes
finish(s, self) ==
    On(self, LAMBDA h :
    On(finish_word(h), LAMBDA b :
    On(absorb(s, h.state, b), LAMBDA st1 :
    On(d_rounds(s, [st1 EXCEPT !.v2 = BitXor(st1.v2, U64Lit(<<0, 0, 0, 0, 0, 0, 0, 255>>))]),
       LAMBDA st3 :
       BitXor(BitXor(BitXor(st3.v0, st3.v1), st3.v2), st3.v3)))))

-----------------------------------------------------------------------------
(* The callers: a keyed hasher is fed an input in chunks and queried        *)

\* the largest number of bytes one write call is given
MaxChunk == 17

\* the length of the inputs other than the reference input
MaxLen == 20

Sips == {"Sip13Rounds", "Sip24Rounds"}

\* the key of the published SipHash-2-4 vectors: 0x0706050403020100, 0x0f0e0d0c0b0a0908
RefKey == <<U64Lit(<<7, 6, 5, 4, 3, 2, 1, 0>>), U64Lit(<<15, 14, 13, 12, 11, 10, 9, 8>>)>>

\* SipHasher::new(): both keys 0
ZeroKey == <<Zero64, Zero64>>

HighKey == <<Word(LAMBDA i : 255), U64Lit(<<128, 0, 0, 0, 0, 0, 0, 1>>)>>

\* the input of the published vectors: the bytes 0, 1, ..., 62
RefInput == SubSeq([i \in 1..63 |-> i - 1], 1, 63)

\* bytes with the high bit set, all different
HighInput == SubSeq([i \in 1..MaxLen |-> 255 - ((7 * i) % 128)], 1, MaxLen)

\* a mix of zero and non-zero bytes
MixedInput == SubSeq([i \in 1..MaxLen |-> IF i % 3 = 0 THEN 0 ELSE (i * 37) % 256], 1, MaxLen)

\* the keys and inputs of the callers
Cases == {<<RefKey, RefInput>>, <<ZeroKey, HighInput>>, <<HighKey, MixedInput>>}

NoRet == <<>>

\* the counter starts at 0 and stays far below its limit, so the build that checks
\* overflow and the build that does not take the same steps: the checking one is kept
Init ==
    /\ S \in Sips
    /\ \E c \in Cases :
        /\ hasher = new_with_keys(c[1][1], c[1][2])
        /\ input = c[2]
    /\ overflow_checks = TRUE
    /\ panicked = FALSE
    /\ pos = 0
    /\ base = Zero64
    /\ last = "new"
    /\ ret = NoRet
    /\ ref = NoRet
    /\ other = Unused
    /\ event = Unused
    /\ threads = Unused
    /\ once = Unused
    /\ util = Unused

\* the bytes fed so far
Fed == SubSeq(input, 1, pos)

\* the next n bytes of the input
Chunk(n) == SubSeq(input, pos + 1, pos + n)

\* a call that adds n to self.length panics when the sum overflows and the build
\* checks overflow; the panic leaves the hasher as it was
Call(n, after, op) ==
    /\ ~panicked
    /\ pos + n <= Len(input)
    /\ IF overflow_checks /\ length_overflows(hasher, n)
       THEN /\ panicked' = TRUE
            /\ UNCHANGED <<hasher, pos, last, ret>>
       ELSE /\ hasher' = after
            /\ pos' = pos + n
            /\ last' = op
            /\ ret' = NoRet
            /\ UNCHANGED panicked
    /\ UNCHANGED <<S, overflow_checks, input, base, ref, other, event, threads, once, util>>

Write(n) == Call(n, write(S, hasher, Chunk(n)), "write")

WriteU8 == Call(1, write_u8(S, hasher, Chunk(1)[1]), "short_write")

WriteUsize == Call(8, write_usize(S, hasher, Chunk(8)), "short_write")

\* the states a finish call leaves: "finish_again" when the call before it was a finish too
Queried == {"finish", "finish_again"}

\* a finish that runs its rounds on the hasher's own lanes
FinishInPlace ==
    /\ ~panicked
    /\ ret' = finish(S, hasher)
    /\ hasher' = [hasher EXCEPT !.state = absorb(S, hasher.state, finish_word(hasher))]
    /\ last' = IF last \in Queried THEN "finish_again" ELSE "finish"
    /\ UNCHANGED <<S, overflow_checks, panicked, input, pos, base, ref, other, event, threads, once, util>>

\* a finish that takes the buffered bytes out of the hasher
FinishTakesTail ==
    /\ ~panicked
    /\ ret' = finish(S, hasher)
    /\ hasher' = [hasher EXCEPT !.tail = Zero64, !.ntail = 0]
    /\ last' = IF last \in Queried THEN "finish_again" ELSE "finish"
    /\ UNCHANGED <<S, overflow_checks, panicked, input, pos, base, ref, other, event, threads, once, util>>

Finish ==
    /\ ~panicked
    /\ ret' = finish(S, hasher)
    /\ last' = IF last \in Queried THEN "finish_again" ELSE "finish"
    /\ UNCHANGED <<S, hasher, overflow_checks, panicked, input, pos, base, ref, other, event, threads, once, util>>

Next ==
    \/ \E n \in 0..MaxChunk : Write(n)
    \/ WriteU8
    \/ WriteUsize
    \/ Finish

Spec == Init /\ [][Next]_vars

-----------------------------------------------------------------------------
(* The length counter: a hasher that is fed more than 256 bytes, and two     *)
(* hashers whose length counter already stands at 2^64 - 16 and 2^64 - 8.    *)
(* The lanes after that many bytes cannot be computed here; the two keep the *)
(* keyed lanes, which the length counter does not depend on.  The two byte   *)
(* counts are multiples of 8, so no byte is buffered.                        *)

\* 268 bytes, all different up to byte 256
LongInput == SubSeq([i \in 1..268 |-> (i * 29 + 5) % 256], 1, 268)

\* the hashers and what each is going to be fed
LengthCases ==
    { << new_with_keys(HighKey[1], HighKey[2]), LongInput >>,
      << [new_with_keys(HighKey[1], HighKey[2])
             EXCEPT !.length = U64Lit(<<255, 255, 255, 255, 255, 255, 255, 240>>)], MixedInput >>,
      << [new_with_keys(HighKey[1], HighKey[2])
             EXCEPT !.length = U64Lit(<<255, 255, 255, 255, 255, 255, 255, 248>>)], MixedInput >> }

InitLength ==
    /\ S \in Sips
    /\ \E c \in LengthCases :
        /\ hasher = c[1]
        /\ base = c[1].length
        /\ input = c[2]
    /\ overflow_checks \in BOOLEAN
    /\ panicked = FALSE
    /\ pos = 0
    /\ last = "new"
    /\ ret = NoRet
    /\ ref = NoRet
    /\ other = Unused
    /\ event = Unused
    /\ threads = Unused
    /\ once = Unused
    /\ util = Unused

\* the sizes of the write calls: empty, within a word, a word and more, the largest
LengthChunks == {0, 1, 5, 16, MaxChunk}

NextLength ==
    \/ \E n \in LengthChunks : Write(n)
    \/ WriteU8
    \/ WriteUsize
    \/ Finish

SpecLength == InitLength /\ [][NextLength]_vars

-----------------------------------------------------------------------------
(* The compression round on its own, against its definition over vectors of *)
(* 64 bits (bit 0 first)                                                    *)

\* the compression rounds per word of the variant
CRounds(s) == IF s = "Sip13Rounds" THEN 1 ELSE 2

\* how many rounds are applied in a row
MaxRounds == 8

\* the vector whose bit i - 1 is F(i)
Bits(F(_)) == SubSeq([i \in 1..64 |-> F(i)], 1, 64)

BitsOf(w) == On(w, LAMBDA x : Bits(LAMBDA i : (x[((i - 1) \div 8) + 1] \div Pow2((i - 1) % 8)) % 2))

LanesBits(st) == [v0 |-> BitsOf(st.v0), v1 |-> BitsOf(st.v1),
                  v2 |-> BitsOf(st.v2), v3 |-> BitsOf(st.v3)]

\* the number that the bits 16k + j .. 16k + 16 of x spell (the rest of digit k of x
\* in base 2^16)
RECURSIVE DigitFrom(_, _, _)
DigitFrom(x, k, j) == IF j > 16 THEN 0 ELSE x[16 * k + j] + 2 * DigitFrom(x, k, j + 1)

\* the four base-2^16 digits of a, lowest first
Digits(a) ==
    On(a, LAMBDA x : <<DigitFrom(x, 0, 1), DigitFrom(x, 1, 1), DigitFrom(x, 2, 1), DigitFrom(x, 3, 1)>>)

\* (a + b) mod 2^64: the digits added from the lowest up, each carry taken into the
\* next digit and the carry out of the highest digit dropped
AddMod64(a, b) ==
    On2(Digits(a), Digits(b), LAMBDA dx, dy :
        LET c1 == (dx[1] + dy[1]) \div 65536
            c2 == (dx[2] + dy[2] + c1) \div 65536
            c3 == (dx[3] + dy[3] + c2) \div 65536
            sum == << (dx[1] + dy[1]) % 65536, (dx[2] + dy[2] + c1) % 65536,
                      (dx[3] + dy[3] + c2) % 65536, (dx[4] + dy[4] + c3) % 65536 >>
        IN  On(sum, LAMBDA d : Bits(LAMBDA i : (d[((i - 1) \div 16) + 1] \div (2^((i - 1) % 16))) % 2)))

\* rotl(a, n): bit i of the result is bit (i - n) mod 64 of a
Rotl(a, n) == On(a, LAMBDA x : Bits(LAMBDA i : x[((i - 1 - n) % 64) + 1]))

XorBitwise(a, b) == On2(a, b, LAMBDA x, y : Bits(LAMBDA i : (x[i] + y[i]) % 2))

\* step k of the round as the SipHash definition gives it
SipRoundStep(k, v) ==
    CASE k = 1  -> [v EXCEPT !.v0 = AddMod64(v.v0, v.v1)]
      [] k = 2  -> [v EXCEPT !.v1 = Rotl(v.v1, 13)]
      [] k = 3  -> [v EXCEPT !.v1 = XorBitwise(v.v1, v.v0)]
      [] k = 4  -> [v EXCEPT !.v0 = Rotl(v.v0, 32)]
      [] k = 5  -> [v EXCEPT !.v2 = AddMod64(v.v2, v.v3)]
      [] k = 6  -> [v EXCEPT !.v3 = Rotl(v.v3, 16)]
      [] k = 7  -> [v EXCEPT !.v3 = XorBitwise(v.v3, v.v2)]
      [] k = 8  -> [v EXCEPT !.v0 = AddMod64(v.v0, v.v3)]
      [] k = 9  -> [v EXCEPT !.v3 = Rotl(v.v3, 21)]
      [] k = 10 -> [v EXCEPT !.v3 = XorBitwise(v.v3, v.v0)]
      [] k = 11 -> [v EXCEPT !.v2 = AddMod64(v.v2, v.v1)]
      [] k = 12 -> [v EXCEPT !.v1 = Rotl(v.v1, 17)]
      [] k = 13 -> [v EXCEPT !.v1 = XorBitwise(v.v1, v.v2)]
      [] k = 14 -> [v EXCEPT !.v2 = Rotl(v.v2, 32)]

RECURSIVE SipRoundFrom(_, _)
SipRoundFrom(k, v) ==
    IF k > 14 THEN v
    ELSE On2(k + 1, SipRoundStep(k, v), LAMBDA k1, v1 : SipRoundFrom(k1, v1))

SipRound(v) == On(v, LAMBDA x : SipRoundFrom(1, x))

Ones64 == <<255, 255, 255, 255, 255, 255, 255, 255>>

TopBit == <<0, 0, 0, 0, 0, 0, 0, 128>>

\* lanes of freshly keyed hashers, and lanes whose sums overflow
LaneSamples ==
    { new_with_keys(RefKey[1], RefKey[2]).state,
      new_with_keys(ZeroKey[1], ZeroKey[2]).state,
      new_with_keys(HighKey[1], HighKey[2]).state,
      [v0 |-> Ones64, v2 |-> Ones64, v1 |-> Ones64, v3 |-> Ones64],
      [v0 |-> Ones64, v2 |-> TopBit, v1 |-> <<1, 0, 0, 0, 0, 0, 0, 0>>, v3 |-> TopBit],
      [v0 |-> Zero64, v2 |-> Zero64, v1 |-> Zero64, v3 |-> Zero64] }

InitCompress ==
    /\ S \in Sips
    /\ \E lanes \in LaneSamples :
        /\ hasher = [new_with_keys(Zero64, Zero64) EXCEPT !.state = lanes]
        /\ ref = LanesBits(lanes)
    /\ overflow_checks \in BOOLEAN
    /\ panicked = FALSE
    /\ input = <<>>
    /\ pos = 0
    /\ base = Zero64
    /\ last = "new"
    /\ ret = NoRet
    /\ other = Unused
    /\ event = Unused
    /\ threads = Unused
    /\ once = Unused
    /\ util = Unused

\* one compress!(state) on the lanes; pos counts the rounds
Compress ==
    /\ pos < MaxRounds
    /\ hasher' = [hasher EXCEPT !.state = compress(hasher.state)]
    /\ ref' = SipRound(ref)
    /\ pos' = pos + 1
    /\ last' = "compress"
    /\ UNCHANGED <<S, overflow_checks, panicked, input, base, ret, other, event, threads, once, util>>

\* S::c_rounds(&mut state)
CRoundsCall ==
    /\ pos + CRounds(S) <= MaxRounds
    /\ hasher' = [hasher EXCEPT !.state = c_rounds(S, hasher.state)]
    /\ ref' = IF S = "Sip13Rounds" THEN SipRound(ref) ELSE SipRound(SipRound(ref))
    /\ pos' = pos + CRounds(S)
    /\ last' = "c_rounds"
    /\ UNCHANGED <<S, overflow_checks, panicked, input, base, ret, other, event, threads, once, util>>

NextCompress == Compress \/ CRoundsCall

SpecCompress == InitCompress /\ [][NextCompress]_vars

-----------------------------------------------------------------------------
(* Two instances: a hasher and a clone of it, each fed its own bytes         *)

\* a clone that starts over from the keys
clone_rekeyed(self) == new_with_keys(self.k0, self.k1)

\* impl Clone for HashBase: every field copied
clone(self) ==
    [k0 |-> self.k0, k1 |-> self.k1, length |-> self.length, state |-> self.state,
     tail |-> self.tail, ntail |-> self.ntail]

\* the length of the input of each of the two instances
CloneLen == 9

CloneInput == SubSeq([i \in 1..CloneLen |-> (i * 53 + 1) % 256], 1, CloneLen)

\* what the clone is fed after it was made: no byte of it is the source's byte
OtherInput == SubSeq([i \in 1..CloneLen |-> 255 - ((i * 53 + 1) % 256)], 1, CloneLen)

\* the sizes of the write calls of the two instances
CloneChunks == {0, 5}

InitClone ==
    /\ S \in Sips
    /\ hasher = new_with_keys(HighKey[1], HighKey[2])
    /\ input = CloneInput
    /\ overflow_checks = TRUE
    /\ panicked = FALSE
    /\ pos = 0
    /\ base = Zero64
    /\ last = "new"
    /\ ret = NoRet
    /\ ref = NoRet
    /\ other = Unused
    /\ event = Unused
    /\ threads = Unused
    /\ once = Unused
    /\ util = Unused

\* let other = hasher.clone(); taken is how many bytes the clone has been fed since
Clone ==
    /\ ~panicked
    /\ other = Unused
    /\ other' = [h |-> clone(hasher), fed |-> Fed, taken |-> 0, last |-> "clone", ret |-> NoRet]
    /\ UNCHANGED <<S, hasher, overflow_checks, panicked, input, pos, base, last, ret, ref,
                   event, threads, once, util>>

\* other.write(data); the counter of the clone is far from overflowing
OtherWrite(n) ==
    /\ ~panicked
    /\ other # Unused
    /\ other.taken + n <= Len(OtherInput)
    /\ LET data == SubSeq(OtherInput, other.taken + 1, other.taken + n)
       IN  other' = [other EXCEPT !.h = write(S, other.h, data),
                                  !.fed = other.fed \o data,
                                  !.taken = other.taken + n,
                                  !.last = "write",
                                  !.ret = NoRet]
    /\ UNCHANGED <<S, hasher, overflow_checks, panicked, input, pos, base, last, ret, ref,
                   event, threads, once, util>>

\* other.finish()
OtherFinish ==
    /\ ~panicked
    /\ other # Unused
    /\ other' = [other EXCEPT !.ret = finish(S, other.h), !.last = "finish"]
    /\ UNCHANGED <<S, hasher, overflow_checks, panicked, input, pos, base, last, ret, ref,
                   event, threads, once, util>>

NextClone ==
    \/ \E n \in CloneChunks : Write(n)
    \/ WriteU8
    \/ WriteUsize
    \/ Finish
    \/ Clone
    \/ \E n \in CloneChunks : OtherWrite(n)
    \/ OtherFinish

SpecClone == InitClone /\ [][NextClone]_vars

-----------------------------------------------------------------------------
(* sync: AutoResetEvent and ManualResetEvent.  A critical section under the *)
(* mutex is one step (no thread keeps the lock across a step: a thread that *)
(* waits on the condition variable gives the lock up as it parks).  A       *)
(* thread is "parked" while it sleeps on the condition variable and         *)
(* "notified" once a notify has chosen it and it has yet to take the lock.  *)

Threads == {"t1", "t2", "t3"}

\* how many calls each thread makes
MaxCalls == 2

\* every variable of the hashers, unused by these behaviours
SipUnused ==
    /\ S = Unused /\ hasher = Unused /\ overflow_checks = Unused /\ panicked = Unused
    /\ input = Unused /\ pos = Unused /\ base = Unused /\ last = Unused /\ ret = Unused
    /\ ref = Unused /\ other = Unused

InitThreads ==
    threads = [t \in Threads |->
                  [pc |-> "idle", timed |-> FALSE, id |-> Zero64, calls |-> 0, result |-> FALSE]]

\* thread t is outside any call and has a call left to make
CanCall(t) == threads[t].pc = "idle" /\ threads[t].calls < MaxCalls

\* the threads asleep on the condition variable
Parked == {t \in Threads : threads[t].pc = "parked"}

\* AutoResetEvent::new(signalled)
InitAuto ==
    /\ \E signalled \in BOOLEAN :
          event = [value |-> signalled, created |-> signalled, sets |-> 0, released |-> 0,
                   lastop |-> "new"]
    /\ InitThreads
    /\ SipUnused
    /\ once = Unused
    /\ util = Unused

\* a loop head that waits before it looks at the value
auto_blocks_always(ev) == TRUE

\* AutoResetEvent::wait / wait_until: `while !*value`
auto_blocks(ev) == ~ev.value

\* a wait that leaves the event signaled as it returns
auto_take_keeps(ev) == ev

\* AutoResetEvent::wait / wait_until: `*value = false`
auto_take(ev) == [ev EXCEPT !.value = FALSE]

\* AutoResetEvent::reset
AutoReset(t) ==
    /\ CanCall(t)
    /\ event' = [event EXCEPT !.value = FALSE, !.lastop = "reset"]
    /\ threads' = [threads EXCEPT ![t].calls = @ + 1]
    /\ UNCHANGED <<sipVars, once, util>>

\* AutoResetEvent::set: `*self.value.lock() = true;` (the guard is dropped here)
AutoSetStore(t) ==
    /\ CanCall(t)
    /\ event' = [event EXCEPT !.value = TRUE, !.sets = @ + 1, !.lastop = "set"]
    /\ threads' = [threads EXCEPT ![t].calls = @ + 1, ![t].pc = "notify"]
    /\ UNCHANGED <<sipVars, once, util>>

\* a set that stores the value and notifies nobody
AutoSetForgets(t) ==
    /\ threads[t].pc = "notify"
    /\ threads' = [threads EXCEPT ![t].pc = "idle"]
    /\ event' = [event EXCEPT !.lastop = "notify"]
    /\ UNCHANGED <<sipVars, once, util>>

\* AutoResetEvent::set: `self.condition.notify_one()`: one parked thread, if any
AutoSetNotify(t) ==
    /\ threads[t].pc = "notify"
    /\ IF Parked = {}
       THEN threads' = [threads EXCEPT ![t].pc = "idle"]
       ELSE \E u \in Parked : threads' = [threads EXCEPT ![t].pc = "idle", ![u].pc = "notified"]
    /\ event' = [event EXCEPT !.lastop = "notify"]
    /\ UNCHANGED <<sipVars, once, util>>

\* the loop of wait / wait_until with the lock held: park, or take the signal and
\* return (true); op tells a return made on entry from one made after a wake-up
AutoLoop(t, timed, op) ==
    IF auto_blocks(event)
    THEN /\ event' = [event EXCEPT !.lastop = "park"]
         /\ threads' = [threads EXCEPT ![t].pc = "parked", ![t].timed = timed,
                                       ![t].calls = IF op = "wait" THEN @ + 1 ELSE @]
    ELSE /\ event' = [auto_take(event) EXCEPT !.released = @ + 1, !.lastop = op]
         /\ threads' = [threads EXCEPT ![t].pc = "idle", ![t].result = TRUE,
                                       ![t].calls = IF op = "wait" THEN @ + 1 ELSE @]

\* AutoResetEvent::wait (timed = FALSE) and wait_until (timed = TRUE) are called
AutoWait(t, timed) ==
    /\ CanCall(t)
    /\ AutoLoop(t, timed, "wait")
    /\ UNCHANGED <<sipVars, once, util>>

\* a notified thread takes the lock again and goes round the loop
AutoWake(t) ==
    /\ threads[t].pc = "notified"
    /\ AutoLoop(t, threads[t].timed, "woken")
    /\ UNCHANGED <<sipVars, once, util>>

\* a timeout that clears the value on its way out
AutoTimeoutTakes(t) ==
    /\ threads[t].pc = "parked"
    /\ threads[t].timed
    /\ event' = [auto_take(event) EXCEPT !.lastop = "timeout"]
    /\ threads' = [threads EXCEPT ![t].pc = "idle", ![t].result = FALSE]
    /\ UNCHANGED <<sipVars, once, util>>

\* wait_until: the deadline passes while the thread is parked; it returns false
AutoTimeout(t) ==
    /\ threads[t].pc = "parked"
    /\ threads[t].timed
    /\ event' = [event EXCEPT !.lastop = "timeout"]
    /\ threads' = [threads EXCEPT ![t].pc = "idle", ![t].result = FALSE]
    /\ UNCHANGED <<sipVars, once, util>>

NextAuto ==
    \E t \in Threads :
        \/ AutoReset(t)
        \/ AutoSetStore(t)
        \/ AutoSetNotify(t)
        \/ \E timed \in BOOLEAN : AutoWait(t, timed)
        \/ AutoWake(t)
        \/ AutoTimeout(t)

SpecAuto == InitAuto /\ [][NextAuto]_vars

\* the same event under a fair scheduler: a thread inside set goes on to its
\* notify_one, and a notified thread gets the lock again and runs
SpecAutoFair ==
    /\ InitAuto
    /\ [][NextAuto]_vars
    /\ \A t \in Threads : WF_vars(AutoSetNotify(t)) /\ WF_vars(AutoWake(t))

\* ManualResetEvent::new(signalled): id = Wrapping(0)
InitManual ==
    /\ \E signalled \in BOOLEAN :
          event = [signalled |-> signalled, id |-> Zero64, sets |-> 0, released |-> 0,
                   lastop |-> "new"]
    /\ InitThreads
    /\ SipUnused
    /\ once = Unused
    /\ util = Unused

\* a loop that looks at the signalled flag only
manual_blocks_no_id(ev, id) == ~ev.signalled

\* a loop that looks at the id only
manual_blocks_id_only(ev, id) == ev.id = id

\* ManualResetEvent::wait / wait_until: `while !value.signalled && value.id == id`
manual_blocks(ev, id) == ~ev.signalled /\ ev.id = id

\* ManualResetEvent::reset
ManualReset(t) ==
    /\ CanCall(t)
    /\ event' = [event EXCEPT !.signalled = FALSE, !.lastop = "reset"]
    /\ threads' = [threads EXCEPT ![t].calls = @ + 1]
    /\ UNCHANGED <<sipVars, once, util>>

\* ManualResetEvent::set, all of it with the lock held: value.id += Wrapping(1);
\* value.signalled = true; notify_all()
ManualSet(t) ==
    /\ CanCall(t)
    /\ event' = [event EXCEPT !.id = wrapping_add(@, ToUsize(1)), !.signalled = TRUE,
                              !.sets = @ + 1, !.lastop = "set"]
    /\ threads' = [u \in Threads |->
                      IF u = t THEN [threads[u] EXCEPT !.calls = @ + 1]
                      ELSE IF threads[u].pc = "parked" THEN [threads[u] EXCEPT !.pc = "notified"]
                      ELSE threads[u]]
    /\ UNCHANGED <<sipVars, once, util>>

\* the loop of wait / wait_until with the lock held and id the value read on entry
ManualLoop(t, timed, id, op) ==
    IF manual_blocks(event, id)
    THEN /\ event' = [event EXCEPT !.lastop = "park"]
         /\ threads' = [threads EXCEPT ![t].pc = "parked", ![t].timed = timed, ![t].id = id,
                                       ![t].calls = IF op = "wait" THEN @ + 1 ELSE @]
    ELSE /\ event' = [event EXCEPT !.released = @ + 1, !.lastop = op]
         /\ threads' = [threads EXCEPT ![t].pc = "idle", ![t].result = TRUE, ![t].id = id,
                                       ![t].calls = IF op = "wait" THEN @ + 1 ELSE @]

\* ManualResetEvent::wait (timed = FALSE) and wait_until (timed = TRUE) are called:
\* let id = value.id
ManualWait(t, timed) ==
    /\ CanCall(t)
    /\ ManualLoop(t, timed, event.id, "wait")
    /\ UNCHANGED <<sipVars, once, util>>

\* a notified thread takes the lock again and goes round the loop
ManualWake(t) ==
    /\ threads[t].pc = "notified"
    /\ ManualLoop(t, threads[t].timed, threads[t].id, "woken")
    /\ UNCHANGED <<sipVars, once, util>>

\* wait_until: the deadline passes while the thread is parked; it returns false
ManualTimeout(t) ==
    /\ threads[t].pc = "parked"
    /\ threads[t].timed
    /\ event' = [event EXCEPT !.lastop = "timeout"]
    /\ threads' = [threads EXCEPT ![t].pc = "idle", ![t].result = FALSE]
    /\ UNCHANGED <<sipVars, once, util>>

NextManual ==
    \E t \in Threads :
        \/ ManualReset(t)
        \/ ManualSet(t)
        \/ \E timed \in BOOLEAN : ManualWait(t, timed)
        \/ ManualWake(t)
        \/ ManualTimeout(t)

\* a notified thread is runnable: the scheduler runs it and the mutex, which no thread
\* keeps, is granted to it
SpecManual ==
    /\ InitManual
    /\ [][NextManual]_vars
    /\ \A t \in Threads : WF_vars(ManualWake(t))

-----------------------------------------------------------------------------
(* core: initialize() and initialized() over the static INITIALIZED: Once   *)

\* static INITIALIZED: Once = Once::new(); completed counts the initialize() calls
\* that have returned
InitOnce ==
    /\ once = [state |-> "New", completed |-> 0]
    /\ threads = [t \in Threads |->
                     [pc |-> "idle", calls |-> 0, queried |-> FALSE, result |-> FALSE,
                      was |-> FALSE]]
    /\ SipUnused
    /\ event = Unused
    /\ util = Unused

\* initialized(): INITIALIZED.state() != OnceState::Done
initialized(o) == o.state # "Done"

\* initialize() is called: call_once returns at once if the closure has run, runs it
\* if no thread has started it, and blocks while another thread runs it
InitializeCall(t) ==
    /\ CanCall(t)
    /\ CASE once.state = "Done" ->
              /\ once' = [once EXCEPT !.completed = @ + 1]
              /\ threads' = [threads EXCEPT ![t].calls = @ + 1]
         [] once.state = "New" ->
              /\ once' = [once EXCEPT !.state = "InProgress"]
              /\ threads' = [threads EXCEPT ![t].calls = @ + 1, ![t].pc = "closure"]
         [] once.state = "InProgress" ->
              /\ UNCHANGED once
              /\ threads' = [threads EXCEPT ![t].calls = @ + 1, ![t].pc = "blocked"]
    /\ UNCHANGED <<sipVars, event, util>>

\* crate::os::initialize() returns: the Once is Done and initialize() returns
ClosureReturns(t) ==
    /\ threads[t].pc = "closure"
    /\ once' = [state |-> "Done", completed |-> once.completed + 1]
    /\ threads' = [threads EXCEPT ![t].pc = "idle"]
    /\ UNCHANGED <<sipVars, event, util>>

\* a thread blocked in call_once returns once the closure has run
InitializeResumes(t) ==
    /\ threads[t].pc = "blocked"
    /\ once.state = "Done"
    /\ once' = [once EXCEPT !.completed = @ + 1]
    /\ threads' = [threads EXCEPT ![t].pc = "idle"]
    /\ UNCHANGED <<sipVars, event, util>>

\* initialized() is called; was records whether an initialize() call had returned
InitializedCall(t) ==
    /\ CanCall(t)
    /\ threads' = [threads EXCEPT ![t].calls = @ + 1, ![t].queried = TRUE,
                                  ![t].result = initialized(once),
                                  ![t].was = once.completed > 0]
    /\ UNCHANGED <<sipVars, event, once, util>>

NextOnce ==
    \E t \in Threads :
        \/ InitializeCall(t)
        \/ ClosureReturns(t)
        \/ InitializeResumes(t)
        \/ InitializedCall(t)

SpecOnce == InitOnce /\ [][NextOnce]_vars

-----------------------------------------------------------------------------
(* cmp: partial_min and partial_max over a PartialOrd type, here f64        *)

\* every variable of the events and of the Once, unused by these behaviours
SyncUnused == event = Unused /\ threads = Unused /\ once = Unused

\* the f64 values compared: the two zeros are equal and distinct, NaN is unordered
Floats == {"-inf", "-1.0", "-0.0", "0.0", "1.0", "2.0", "inf", "NaN"}

\* where a value that is not NaN stands on the real line
Rank == [f \in Floats \ {"NaN"} |->
            CASE f = "-inf" -> -3 [] f = "-1.0" -> -1 [] f = "-0.0" -> 0 [] f = "0.0" -> 0
              [] f = "1.0" -> 1 [] f = "2.0" -> 2 [] f = "inf" -> 3]

\* <f64 as PartialOrd>::partial_cmp
partial_cmp(a, b) ==
    IF a = "NaN" \/ b = "NaN" THEN "None"
    ELSE IF Rank[a] < Rank[b] THEN "Less"
    ELSE IF Rank[a] > Rank[b] THEN "Greater"
    ELSE "Equal"

\* cmp::partial_min
partial_min(a, b) ==
    CASE partial_cmp(a, b) \in {"Less", "Equal"} -> a
      [] partial_cmp(a, b) \in {"Greater", "None"} -> b

\* cmp::partial_max
partial_max(a, b) ==
    CASE partial_cmp(a, b) \in {"Greater", "Equal"} -> a
      [] partial_cmp(a, b) \in {"Less", "None"} -> b

InitCmp ==
    /\ util = [op |-> "none"]
    /\ SipUnused
    /\ SyncUnused

\* partial_min(a, b) is called
PartialMin(a, b) ==
    /\ util' = [op |-> "partial_min", a |-> a, b |-> b, out |-> partial_min(a, b)]
    /\ UNCHANGED <<sipVars, syncVars, once>>

\* partial_max(a, b) is called
PartialMax(a, b) ==
    /\ util' = [op |-> "partial_max", a |-> a, b |-> b, out |-> partial_max(a, b)]
    /\ UNCHANGED <<sipVars, syncVars, once>>

NextCmp ==
    \E a, b \in Floats :
        \/ PartialMin(a, b)
        \/ PartialMax(a, b)

SpecCmp == InitCmp /\ [][NextCmp]_vars

-----------------------------------------------------------------------------
(* core: BitField<TStorage, TAlignment> over a byte array                   *)

\* the length of the storage, in bytes: BitField<[u8; StorageLen], _>
StorageLen == 2

\* the storages a behaviour starts with: clear, full and mixed
Storages ==
    { [i \in 1..StorageLen |-> 0], [i \in 1..StorageLen |-> 255],
      [i \in 1..StorageLen |-> IF i % 2 = 1 THEN 165 ELSE 60] }

\* the u64 values written, the last one wider than the storage
BitValues == {0, 1, 5, 255, 2 ^ (8 * StorageLen) + 6}

\* `x & (1 << i) != 0` for an unsigned x
TestBit(x, i) == (x \div 2 ^ i) % 2 = 1

\* `index % 8` on a little-endian target, `7 - (index % 8)` on a big-endian one
bit_shift(endian, index) == IF endian = "little" THEN index % 8 ELSE 7 - (index % 8)

\* the two debug_assert! of get_value and set_value
value_asserts(storage, offset, width) ==
    /\ width <= 64
    /\ Len(storage) > (offset + width) \div 8

\* BitField::get
get(storage, endian, index) == TestBit(storage[index \div 8 + 1], bit_shift(endian, index))

\* BitField::set: `*byte |= mask` or `*byte &= !mask`
set(storage, endian, index, value) ==
    LET byte == storage[index \div 8 + 1]
        mask == 2 ^ bit_shift(endian, index)
        held == TestBit(byte, bit_shift(endian, index))
    IN  [storage EXCEPT ![index \div 8 + 1] =
            IF value THEN (IF held THEN byte ELSE byte + mask)
                     ELSE (IF held THEN byte - mask ELSE byte)]

\* the loop of get_value from its iteration i on, value being what it has gathered
RECURSIVE get_value_from(_, _, _, _, _, _)
get_value_from(storage, endian, offset, width, i, value) ==
    IF i >= width THEN value
    ELSE LET shift == IF endian = "big" THEN width - i - 1 ELSE i
         IN  get_value_from(storage, endian, offset, width, i + 1,
                 IF get(storage, endian, offset + i) /\ ~TestBit(value, shift)
                 THEN value + 2 ^ shift ELSE value)

\* BitField::get_value, past its assertions
get_value(storage, endian, offset, width) ==
    get_value_from(storage, endian, offset, width, 0, 0)

\* the loop of set_value from its iteration i on
RECURSIVE set_value_from(_, _, _, _, _, _)
set_value_from(storage, endian, offset, width, value, i) ==
    IF i >= width THEN storage
    ELSE LET index == IF endian = "big" THEN width - i - 1 ELSE i
         IN  set_value_from(set(storage, endian, index + offset, TestBit(value, i)),
                            endian, offset, width, value, i + 1)

\* BitField::set_value, past its assertions
set_value(storage, endian, offset, width, value) ==
    set_value_from(storage, endian, offset, width, value, 0)

\* BitField::new(storage), for a build profile and a target
InitBits ==
    /\ \E storage \in Storages, debug \in BOOLEAN, endian \in {"little", "big"} :
          util = [op |-> "new", storage |-> storage, before |-> storage,
                  debug_assertions |-> debug, endian |-> endian, panicked |-> FALSE,
                  offset |-> 0, width |-> 0, value |-> 0, out |-> 0]
    /\ SipUnused
    /\ SyncUnused

\* set_value(offset, width, value) on a bit range inside the storage
SetValue(offset, width, value) ==
    /\ util.op = "new"
    /\ offset + width <= 8 * Len(util.storage)
    /\ IF util.debug_assertions /\ ~value_asserts(util.storage, offset, width)
       THEN util' = [util EXCEPT !.op = "set_value", !.panicked = TRUE,
                                 !.offset = offset, !.width = width, !.value = value]
       ELSE util' = [util EXCEPT !.op = "set_value",
                                 !.storage = set_value(@, util.endian, offset, width, value),
                                 !.offset = offset, !.width = width, !.value = value]
    /\ UNCHANGED <<sipVars, syncVars, once>>

\* get_value(offset, width) on the range just written
GetValue ==
    /\ util.op = "set_value"
    /\ ~util.panicked
    /\ IF util.debug_assertions /\ ~value_asserts(util.storage, util.offset, util.width)
       THEN util' = [util EXCEPT !.op = "get_value", !.panicked = TRUE]
       ELSE util' = [util EXCEPT !.op = "get_value",
                                 !.out = get_value(util.storage, util.endian,
                                                   util.offset, util.width)]
    /\ UNCHANGED <<sipVars, syncVars, once>>

NextBits ==
    \/ \E offset, width \in 0..(8 * StorageLen), value \in BitValues :
          SetValue(offset, width, value)
    \/ GetValue

SpecBits == InitBits /\ [][NextBits]_vars

-----------------------------------------------------------------------------
(* crypto::sip: the loads, on a little-endian and on a big-endian host      *)

\* the length of the buffers the loads are given
DecodeLen == 10

\* the buffers: high bytes, zero and non-zero bytes, ascending bytes
Buffers ==
    { SubSeq(HighInput, 1, DecodeLen), SubSeq(MixedInput, 1, DecodeLen),
      SubSeq(RefInput, 2, DecodeLen + 1) }

\* to_le of an integer of `size` bytes that keeps the native order on every host
to_le_native(v, size, endian) == v

\* <int_ty>::to_le: the identity on a little-endian host, swap_bytes on a big-endian one
to_le(v, size, endian) ==
    IF endian = "little" THEN v
    ELSE Word(LAMBDA j : IF j <= size THEN v[size - j + 1] ELSE 0)

\* load_int_le!: `data` after copy_nonoverlapping has put buf[i .. i + size] in its
\* memory; the first byte of memory is the least significant one on a little-endian
\* host and the most significant one on a big-endian host
copy_nonoverlapping(buf, i, size, endian) ==
    Word(LAMBDA j : IF j > size THEN 0
                    ELSE IF endian = "little" THEN buf[i + j]
                    ELSE buf[i + size - j + 1])

\* load_int_le!(buf, i, int_ty) as it runs on a host of the given byte order
load_int_le_on(buf, i, size, endian) ==
    to_le(copy_nonoverlapping(buf, i, size, endian), size, endian)

InitDecode ==
    /\ \E buf \in Buffers, endian \in {"little", "big"} :
          util = [op |-> "none", buf |-> buf, endian |-> endian,
                  start |-> 0, len |-> 0, out |-> Zero64]
    /\ SipUnused
    /\ SyncUnused

\* u8to64_le(buf, start, len) is called with len < 8 and start + len <= buf.len()
Decode(start, len) ==
    /\ start + len <= Len(util.buf)
    /\ util' = [util EXCEPT !.op = "u8to64_le", !.start = start, !.len = len,
                            !.out = u8to64_le(util.buf, start, len)]
    /\ UNCHANGED <<sipVars, syncVars, once>>

\* load_int_le!(buf, start, u16 | u32 | u64) is called with start + size <= buf.len()
LoadInt(start, size) ==
    /\ start + size <= Len(util.buf)
    /\ util' = [util EXCEPT !.op = "load_int_le", !.start = start, !.len = size,
                            !.out = load_int_le_on(util.buf, start, size, util.endian)]
    /\ UNCHANGED <<sipVars, syncVars, once>>

NextDecode ==
    \/ \E start \in 0..DecodeLen, len \in 0..7 : Decode(start, len)
    \/ \E start \in 0..DecodeLen, size \in {2, 4, 8} : LoadInt(start, size)

SpecDecode == InitDecode /\ [][NextDecode]_vars

-----------------------------------------------------------------------------
(* Properties                                                               *)

\* hashing data in a single call: new_with_keys, one write, finish
OneShot(s, k0, k1, data) == finish(s, write(s, new_with_keys(k0, k1), data))

\* C1: however the input was cut into write (and short-write) calls, empty calls and
\* calls that split a word included, the digest finish returns is the digest of a
\* single write of the same bytes, for both SipHasher13 and SipHasher24.
C1_IncrementalEquivalence ==
    last \in Queried => ret = OneShot(S, hasher.k0, hasher.k1, Fed)

\* a digest taken after more bytes than two calls can carry
C1_Witness ==
    /\ last = "finish"
    /\ pos > 2 * MaxChunk
    /\ hasher.ntail # 0
    /\ ret = OneShot(S, hasher.k0, hasher.k1, Fed)

\* the 64 digests of vectors.h of the SipHash reference implementation (SipHash-2-4,
\* 64-bit output), each as its 8 bytes, least significant first: entry n + 1 is the
\* digest of the bytes 0 .. n-1
RefVectors == <<
    <<49, 14, 14, 221, 71, 219, 111, 114>>,
    <<253, 103, 220, 147, 197, 57, 248, 116>>,
    <<90, 79, 169, 217, 9, 128, 108, 13>>,
    <<45, 126, 251, 215, 150, 102, 103, 133>>,
    <<183, 135, 113, 39, 224, 148, 39, 207>>,
    <<141, 166, 153, 205, 100, 85, 118, 24>>,
    <<206, 227, 254, 88, 110, 70, 201, 203>>,
    <<55, 209, 1, 139, 245, 0, 2, 171>>,
    <<98, 36, 147, 154, 121, 245, 245, 147>>,
    <<176, 228, 169, 11, 223, 130, 0, 158>>,
    <<243, 185, 221, 148, 197, 187, 93, 122>>,
    <<167, 173, 107, 34, 70, 47, 179, 244>>,
    <<251, 229, 14, 134, 188, 143, 30, 117>>,
    <<144, 61, 132, 192, 39, 86, 234, 20>>,
    <<238, 242, 122, 142, 144, 202, 35, 247>>,
    <<229, 69, 190, 73, 97, 202, 41, 161>>,
    <<219, 155, 194, 87, 127, 204, 42, 63>>,
    <<148, 71, 190, 44, 245, 233, 154, 105>>,
    <<156, 211, 141, 150, 240, 179, 193, 75>>,
    <<189, 97, 121, 167, 29, 201, 109, 187>>,
    <<152, 238, 162, 26, 242, 92, 214, 190>>,
    <<199, 103, 59, 46, 176, 203, 242, 208>>,
    <<136, 62, 163, 227, 149, 103, 83, 147>>,
    <<200, 206, 92, 205, 140, 3, 12, 168>>,
    <<148, 175, 73, 246, 198, 80, 173, 184>>,
    <<234, 184, 133, 138, 222, 146, 225, 188>>,
    <<243, 21, 187, 91, 184, 53, 216, 23>>,
    <<173, 207, 107, 7, 99, 97, 46, 47>>,
    <<165, 201, 29, 167, 172, 170, 77, 222>>,
    <<113, 101, 149, 135, 102, 80, 162, 166>>,
    <<40, 239, 73, 92, 83, 163, 135, 173>>,
    <<66, 195, 65, 216, 250, 146, 216, 50>>,
    <<206, 124, 242, 114, 47, 81, 39, 113>>,
    <<227, 120, 89, 249, 70, 35, 243, 167>>,
    <<56, 18, 5, 187, 26, 176, 224, 18>>,
    <<174, 151, 161, 15, 212, 52, 224, 21>>,
    <<180, 163, 21, 8, 190, 255, 77, 49>>,
    <<129, 57, 98, 41, 240, 144, 121, 2>>,
    <<77, 12, 244, 158, 229, 212, 220, 202>>,
    <<92, 115, 51, 106, 118, 216, 191, 154>>,
    <<208, 167, 4, 83, 107, 169, 62, 14>>,
    <<146, 89, 88, 252, 214, 66, 12, 173>>,
    <<169, 21, 194, 155, 200, 6, 115, 24>>,
    <<149, 43, 121, 243, 188, 10, 166, 212>>,
    <<242, 29, 242, 228, 29, 69, 53, 249>>,
    <<135, 87, 117, 25, 4, 143, 83, 169>>,
    <<16, 165, 108, 245, 223, 205, 154, 219>>,
    <<235, 117, 9, 92, 205, 152, 108, 208>>,
    <<81, 169, 203, 158, 203, 163, 18, 230>>,
    <<150, 175, 173, 252, 44, 230, 102, 199>>,
    <<114, 254, 82, 151, 90, 67, 100, 238>>,
    <<90, 22, 69, 178, 118, 213, 146, 161>>,
    <<178, 116, 203, 142, 191, 135, 135, 10>>,
    <<111, 155, 180, 32, 61, 231, 179, 129>>,
    <<234, 236, 178, 163, 11, 34, 168, 127>>,
    <<153, 36, 164, 60, 193, 49, 87, 36>>,
    <<189, 131, 141, 58, 175, 191, 141, 183>>,
    <<11, 26, 42, 50, 101, 213, 26, 234>>,
    <<19, 80, 121, 163, 35, 28, 230, 96>>,
    <<147, 43, 40, 70, 228, 215, 6, 102>>,
    <<225, 145, 95, 92, 177, 236, 164, 108>>,
    <<243, 37, 150, 92, 161, 109, 98, 159>>,
    <<87, 95, 242, 142, 96, 56, 27, 229>>,
    <<114, 69, 6, 235, 76, 50, 138, 149>> >>

UsesRefVectors ==
    /\ S = "Sip24Rounds"
    /\ hasher.k0 = RefKey[1]
    /\ hasher.k1 = RefKey[2]
    /\ input = RefInput
    /\ last \in Queried

\* C2: SipHasher24 keyed with 0x0706050403020100, 0x0f0e0d0c0b0a0908 and fed the
\* bytes 0 .. n-1 returns the published SipHash-2-4 digest for n, for every n in 0..63.
C2_ReferenceVectors == UsesRefVectors => ret = RefVectors[pos + 1]

C2_Witness == UsesRefVectors /\ pos = 63 /\ ret = RefVectors[64]

\* C3: a finish call changes no field of the hasher, wherever it is inserted between
\* the updates, so the later calls start from the state the updates alone left.
C3_FinishReadOnly == [][last' \in Queried => hasher' = hasher /\ S' = S]_vars

\* a query of a hasher that holds a partial word
C3_Witness == last = "finish" /\ hasher.ntail # 0 /\ pos > 8

\* C4: two finish calls with no update in between return the same value.
C4_IdempotentQuery == [][last' = "finish_again" => ret' = ret]_vars

C4_Witness == last = "finish_again" /\ pos > 8 /\ hasher.ntail # 0 /\ ret # NoRet

\* C5: after construction and after every completed call, 0 <= ntail < 8.
C5_TailCount == hasher.ntail \in 0..7

C5_Witness == hasher.ntail = 7 /\ last = "short_write" /\ pos > 8

\* the value of a length field below 2^16
LengthNat(h) == h.length[1] + 256 * h.length[2]

\* n compression rounds
RECURSIVE Rounds(_, _)
Rounds(n, st) == IF n = 0 THEN st ELSE On(compress(st), LAMBDA r : Rounds(n - 1, r))

\* the lanes after folding the words k+1 .. n of the stream into st: per word m,
\* v3 ^= m, c compression rounds, v0 ^= m
RECURSIVE FoldWords(_, _, _, _, _)
FoldWords(s, st, stream, k, n) ==
    IF k >= n THEN st
    ELSE On2(st, Word(LAMBDA j : stream[8 * k + j]), LAMBDA v, m :
            On(Rounds(CRounds(s), [v EXCEPT !.v3 = BitXor(v.v3, m)]), LAMBDA r :
               FoldWords(s, [r EXCEPT !.v0 = BitXor(r.v0, m)], stream, k + 1, n)))

\* C6: length - ntail is a multiple of 8 and the lanes are the initial lanes folded
\* over exactly the first (length - ntail) / 8 words of the bytes fed; the buffered
\* bytes have not touched them.
C6_StateInvariant ==
    LET done == LengthNat(hasher) - hasher.ntail
    IN  /\ done >= 0
        /\ done % 8 = 0
        /\ hasher.state =
             FoldWords(S, new_with_keys(hasher.k0, hasher.k1).state, Fed, 0, done \div 8)

C6_Witness == hasher.ntail = 5 /\ pos = 21 /\ last = "write"

\* the ASCII codes of "somepseudorandomlygeneratedbytes"
SeedText ==
    <<115, 111, 109, 101, 112, 115, 101, 117, 100, 111, 114,  97, 110, 100, 111, 109,
      108, 121, 103, 101, 110, 101, 114,  97, 116, 101, 100,  98, 121, 116, 101, 115>>

\* the 8-byte chunk c (0..3) of the text read as a big-endian / little-endian word
SeedBE(c) == Word(LAMBDA i : SeedText[8 * c + 9 - i])

SeedLE(c) == Word(LAMBDA i : SeedText[8 * c + i])

Fresh(C(_)) ==
    /\ hasher.state = [v0 |-> BitXor(hasher.k0, C(0)), v1 |-> BitXor(hasher.k1, C(1)),
                       v2 |-> BitXor(hasher.k0, C(2)), v3 |-> BitXor(hasher.k1, C(3))]
    /\ hasher.length = Zero64
    /\ hasher.ntail = 0
    /\ hasher.tail = Zero64

\* C10 as amended: new_with_keys(k0, k1) yields v0 = k0^C0, v1 = k1^C1, v2 = k0^C2,
\* v3 = k1^C3, length 0 and an empty tail, C0..C3 being the four 8-byte chunks of
\* "somepseudorandomlygeneratedbytes" each read as a BIG-endian 64-bit word.
C10_InitBigEndian == last = "new" => Fresh(SeedBE)

\* C10 as stated: the chunks read as little-endian words
C10_InitLittleEndian == last = "new" => Fresh(SeedLE)

C10_Witness == last = "new" /\ hasher.k0 # Zero64 /\ hasher.k0 # hasher.k1 /\ Fresh(SeedBE)

\* C7: the length counter is (the bytes fed before + the bytes fed since) mod 2^64,
\* and the update that takes the total past 2^64 - 1 completes normally.
C7_LengthWraps ==
    /\ ~panicked
    /\ hasher.length = wrapping_add(base, ToUsize(pos))

\* the finalization rounds of the variant
DRounds(s) == IF s = "Sip13Rounds" THEN 3 ELSE 4

\* the finalization word from the bytes themselves: the (pos mod 8) bytes not yet in
\* a complete word in the low bytes, first byte lowest, and the total byte count mod
\* 256 in the top byte
FinalWord ==
    Word(LAMBDA i :
        IF i = 8 THEN (base[1] + pos) % 256
        ELSE IF i <= pos % 8 THEN input[pos - (pos % 8) + i]
        ELSE 0)

\* v0 ^ v1 ^ v2 ^ v3 after: v3 ^= b; c rounds; v0 ^= b; v2 ^= 0xFF; d rounds
FinalDigest(s, lanes, b) ==
    On2(lanes, b, LAMBDA v, w :
        On(Rounds(CRounds(s), [v EXCEPT !.v3 = BitXor(v.v3, w)]), LAMBDA r :
        On(Rounds(DRounds(s),
                  [r EXCEPT !.v0 = BitXor(r.v0, w),
                            !.v2 = BitXor(r.v2, <<255, 0, 0, 0, 0, 0, 0, 0>>)]), LAMBDA f :
           BitXor(BitXor(f.v0, f.v1), BitXor(f.v2, f.v3)))))

\* C9: finish returns v0^v1^v2^v3 of a copy of the lanes after b = ((length mod 256)
\* << 56) | tail; v3 ^= b; c rounds; v0 ^= b; v2 ^= 0xFF; d rounds, with tail the
\* buffered bytes and length the number of bytes written so far.
C9_FinishFormula == last \in Queried => ret = FinalDigest(S, hasher.state, FinalWord)

\* a digest of a hasher that holds 5 bytes after 261 bytes in all: length mod 256 = 5
C9_Witness ==
    /\ last = "finish"
    /\ pos = 261
    /\ hasher.length = ToUsize(261)
    /\ hasher.ntail = 5
    /\ ret = FinalDigest(S, hasher.state, FinalWord)

\* C8: one compression round is v0+=v1; v1=rotl(v1,13); v1^=v0; v0=rotl(v0,32);
\* v2+=v3; v3=rotl(v3,16); v3^=v2; v0+=v3; v3=rotl(v3,21); v3^=v0; v2+=v1;
\* v1=rotl(v1,17); v1^=v2; v2=rotl(v2,32), every addition modulo 2^64 and none
\* trapping, whatever the lanes hold.
C8_CompressionRound == ~panicked /\ LanesBits(hasher.state) = ref

\* a round whose first addition, v0 + v1, overflowed 64 bits
C8_Witness ==
    /\ last = "compress"
    /\ pos = 1
    /\ hasher.state = compress([v0 |-> Ones64, v2 |-> Ones64, v1 |-> Ones64, v3 |-> Ones64])
    /\ AddOverflows(Ones64, Ones64)

\* the bytes a step feeds, after the bytes that were buffered when it started
StepStream == SubSeq(input, pos - hasher.ntail + 1, pos')

\* C11: no step changes the variant, every word a step folds into the lanes gets the
\* variant's c rounds (1 for SipHasher13, 2 for SipHasher24), and finish gives its
\* word the same c rounds and then the variant's d rounds (3, respectively 4).
C11_VariantPolicy ==
    [][ /\ S' = S
        /\ hasher'.state = FoldWords(S, hasher.state, StepStream, 0, Len(StepStream) \div 8)
        /\ (last' \in Queried => ret' = FinalDigest(S, hasher.state, finish_word(hasher)))
      ]_vars

\* a SipHasher13 queried after two complete words, one of them split between calls
C11_Witness ==
    /\ S = "Sip13Rounds"
    /\ last = "finish"
    /\ pos = 19
    /\ hasher.ntail = 3
    /\ DRounds(S) = 3

\* every debug assertion, subtraction, shift and unchecked read of the calls that can
\* be made next is in order
DebugAssertsHold ==
    /\ \A n \in 0..MaxChunk : pos + n <= Len(input) => write_asserts(hasher, Chunk(n))
    /\ \A n \in {1, 8} : pos + n <= Len(input) => short_write_asserts(hasher, Chunk(n))

\* C12: from every reachable state, write and finish complete without a panic, an
\* arithmetic trap or a failed assertion, and every unchecked read is inside its slice.
C12_Totality == ~panicked /\ DebugAssertsHold

\* C13: for every message of 0..8 bytes, short_write leaves the hasher exactly as write
\* does (lanes, tail, tail count, length), from every reachable state; so the write_u8
\* and write_usize calls that were made left what write of the same bytes leaves.
C13_ShortPath ==
    /\ [](\A n \in 0..8 : pos + n <= Len(input) =>
             short_write(S, hasher, Chunk(n)) = write(S, hasher, Chunk(n)))
    /\ [][last' = "short_write" => hasher' = write(S, hasher, SubSeq(input, pos + 1, pos'))]_vars

\* a write_usize made with 3 bytes buffered: it flushes a word and keeps 3 bytes
C13_Witness ==
    /\ last = "short_write"
    /\ pos = 11
    /\ hasher.ntail = 3
    /\ hasher.tail # Zero64
    /\ hasher.state # new_with_keys(hasher.k0, hasher.k1).state

OtherVariant(s) == IF s = "Sip13Rounds" THEN "Sip24Rounds" ELSE "Sip13Rounds"

\* C15: with the key (0, 0) and an input of 1..7 bytes, the digest of one variant is
\* not the digest the other variant gives for the same key and bytes.
C15_VariantsDiffer ==
    (last \in Queried /\ hasher.k0 = Zero64 /\ hasher.k1 = Zero64 /\ pos \in 1..7)
        => ret # OneShot(OtherVariant(S), hasher.k0, hasher.k1, Fed)

C15_Witness ==
    /\ last = "finish"
    /\ S = "Sip13Rounds"
    /\ hasher.k0 = Zero64 /\ hasher.k1 = Zero64
    /\ pos = 3
    /\ ret = OneShot("Sip13Rounds", Zero64, Zero64, Fed)
    /\ ret # OneShot("Sip24Rounds", Zero64, Zero64, Fed)

\* C14: a step of one instance leaves the other instance as it was; a clone starts with
\* the digest of the bytes its source had been fed; and whatever the interleaving, each
\* instance returns the digest of its own bytes, the one it returns when run alone.
C14_InstanceIndependence ==
    /\ [](last \in Queried => ret = OneShot(S, hasher.k0, hasher.k1, Fed))
    /\ [](other # Unused =>
            /\ other.last = "clone" =>
                  finish(S, other.h) = OneShot(S, hasher.k0, hasher.k1, other.fed)
            /\ other.last = "finish" =>
                  other.ret = OneShot(S, other.h.k0, other.h.k1, other.fed))
    /\ [][ /\ (hasher' # hasher \/ ret' # ret) => other' = other
           /\ (other # Unused /\ other' # other) => (hasher' = hasher /\ ret' = ret /\ pos' = pos)
         ]_vars

\* both instances queried after each was fed bytes of its own since the clone was made
C14_Witness ==
    /\ other # Unused
    /\ other.last = "finish"
    /\ other.taken = 5
    /\ Len(other.fed) = 10
    /\ last = "finish"
    /\ pos = 9
    /\ ret # other.ret

\* a thread starts a wait or wait_until call in this step
StartsWait(t) ==
    /\ threads'[t].calls = threads[t].calls + 1
    /\ event'.lastop \in {"wait", "park"}

\* C16: the waits that returned with a signal never outnumber the set calls (plus one
\* if the event was created signaled), so two sets with no wait in between release one
\* waiter only; and the event is non-signaled as each such wait returns.
C16_OneWaiterPerSignal ==
    /\ [](event.released <= event.sets + (IF event.created THEN 1 ELSE 0))
    /\ [][event'.released > event.released => ~event'.value]_vars

\* two sets released two waiters and a third thread is still asleep
C16_Witness ==
    /\ event.sets = 2
    /\ event.released = 2
    /\ ~event.created
    /\ ~event.value
    /\ Parked # {}

\* C17: a signaled AutoResetEvent stays signaled until a wait takes the signal or a
\* reset clears it; a thread that calls wait while it is signaled does not block: it
\* returns at once and the event is non-signaled.
C17_AutoSignaled ==
    [][ /\ (event.value /\ ~event'.value) => event'.lastop \in {"reset", "wait", "woken"}
        /\ event.value =>
              \A t \in Threads : StartsWait(t) =>
                  /\ threads'[t].pc = "idle"
                  /\ threads'[t].result
                  /\ ~event'.value
      ]_vars

\* a set made while nobody waited, then a wait that returned at once
C17_Witness ==
    /\ event.lastop = "wait"
    /\ event.sets = 1
    /\ ~event.created
    /\ event.released = 1
    /\ ~event.value
    /\ Parked = {}

\* C18: a set call notifies every thread that is parked in wait or wait_until, and a
\* notified thread returns from its call, whatever set and reset calls are made before
\* it takes the lock again.
C18_SetReleasesAll ==
    /\ \A t \in Threads : (threads[t].pc = "notified") ~> (threads[t].pc = "idle")
    /\ [][event'.sets > event.sets =>
             \A t \in Threads : threads[t].pc = "parked" => threads'[t].pc = "notified"]_vars

\* a waiter that was parked at a set and returned although the event had been reset
\* before it took the lock
C18_Witness ==
    /\ event.lastop = "woken"
    /\ ~event.signalled
    /\ event.sets = 1
    /\ \E t \in Threads : threads[t].pc = "idle" /\ threads[t].result /\ threads[t].id # event.id

\* C19: a signaled ManualResetEvent is made non-signaled by reset only; while it is
\* signaled, every wait and wait_until call returns at once (wait_until with true) and
\* leaves it signaled.
C19_ManualSignaled ==
    [][ /\ (event.signalled /\ ~event'.signalled) => event'.lastop = "reset"
        /\ event.signalled =>
              \A t \in Threads : StartsWait(t) =>
                  /\ threads'[t].pc = "idle"
                  /\ threads'[t].result
                  /\ event'.signalled
      ]_vars

\* three waits returned on one set and the event is still signaled
C19_Witness ==
    /\ event.signalled
    /\ event.sets = 1
    /\ event.released = 3
    /\ event.lastop = "wait"
    /\ Parked = {}

\* C20: initialized() returns true if and only if an initialize() call has already
\* returned: false before the first one, true after any.
C20_InitializedIff ==
    \A t \in Threads : threads[t].queried => (threads[t].result <=> threads[t].was)

\* C21: when the two arguments compare equal, partial_max returns the second argument
\* and partial_min returns the first.
C21_EqualReturnsSecond ==
    (util.op \in {"partial_min", "partial_max"} /\ partial_cmp(util.a, util.b) = "Equal") =>
        /\ util.op = "partial_max" => util.out = util.b
        /\ util.op = "partial_min" => util.out = util.a

\* C22: for every bit range [offset, offset + width) inside the storage and every
\* value v, set_value(offset, width, v) completes, get_value(offset, width) then
\* returns v mod 2^width, and every bit outside the range is as it was before.
C22_RoundTrip ==
    util.op \in {"set_value", "get_value"} =>
        /\ ~util.panicked
        /\ get_value(util.storage, util.endian, util.offset, util.width)
              = util.value % 2 ^ util.width
        /\ util.op = "get_value" => util.out = util.value % 2 ^ util.width
        /\ \A index \in 0..(8 * StorageLen - 1) :
              (index < util.offset \/ index >= util.offset + util.width) =>
                  get(util.storage, util.endian, index) = get(util.before, util.endian, index)

\* C23: an update of n bytes on a hasher holding t pending bytes with t + n < 8 leaves
\* the four lanes (and the keys) as they were, puts the n new bytes at byte positions
\* t .. t+n-1 of the tail and leaves its other bytes, makes the tail count t + n and
\* adds n to the length.
C23_ShortUpdate ==
    [][LET t == hasher.ntail
           n == pos' - pos
       IN  (last' \in {"write", "short_write"} /\ t + n < 8) =>
              /\ hasher'.state = hasher.state
              /\ hasher'.k0 = hasher.k0 /\ hasher'.k1 = hasher.k1
              /\ hasher'.ntail = t + n
              /\ hasher'.length = wrapping_add(hasher.length, ToUsize(n))
              /\ \A i \in 1..8 :
                    hasher'.tail[i] = IF i > t /\ i <= t + n THEN input[pos + i - t]
                                      ELSE hasher.tail[i]]_vars

\* seven bytes buffered by updates, the last one a write, and no word compressed
C23_Witness ==
    /\ last = "write"
    /\ pos = 7
    /\ hasher.ntail = 7
    /\ hasher.state = new_with_keys(hasher.k0, hasher.k1).state
    /\ \A i \in 1..7 : hasher.tail[i] = input[i]
    /\ hasher.tail[7] # 0

\* C24: an update of n bytes on a hasher holding t pending bytes leaves (t + n) mod 8
\* pending bytes; no byte is pending exactly when the number of bytes fed is a multiple
\* of 8; and whether bytes are pending or not, after a finish or not, the hasher takes
\* a further update and a further finish.
C24_TailStates ==
    /\ [](/\ hasher.ntail = pos % 8
          /\ (hasher.ntail = 0) <=> (pos % 8 = 0)
          /\ ENABLED Finish
          /\ ENABLED Write(0)
          /\ pos < Len(input) => (ENABLED WriteU8 /\ ENABLED Write(1)))
    /\ [][last' \in {"write", "short_write"} =>
             hasher'.ntail = (hasher.ntail + (pos' - pos)) % 8]_vars

\* bytes pending after more than two words, a finish taken, and both calls still open
C24_Witness ==
    /\ last \in Queried
    /\ pos = 19
    /\ hasher.ntail = 3
    /\ ENABLED WriteU8
    /\ ENABLED Finish

\* C25: between calls the tail holds exactly the last ntail bytes fed, the earliest of
\* them in its least significant byte, and every bit from 8 * ntail up is zero; with
\* no byte pending the tail is 0.
C25_TailContent ==
    /\ \A i \in 1..8 :
          hasher.tail[i] = IF i <= hasher.ntail THEN input[pos - hasher.ntail + i] ELSE 0
    /\ hasher.ntail = 0 => hasher.tail = Zero64

\* five bytes pending after two words went through the lanes, the last one not 0
C25_Witness ==
    /\ last = "short_write"
    /\ pos = 21
    /\ hasher.ntail = 5
    /\ hasher.tail = <<input[17], input[18], input[19], input[20], input[21], 0, 0, 0>>
    /\ input[21] # 0

\* the u64 that is the sum over i < len of buf[start + i] * 256^i, by its base-256 digits
LeSum(buf, start, len) == [i \in 1..8 |-> IF i <= len THEN buf[start + i] ELSE 0]

\* C26: for every buffer, start and len in 0..7 with start + len <= buf.len(),
\* u8to64_le(buf, start, len) is the sum over i < len of buf[start + i] * 256^i, and a
\* load of a whole word (or of the 2- and 4-byte pieces) is the same sum over its
\* bytes, on a little-endian host and on a big-endian host alike.
C26_LittleEndianDecoding ==
    /\ util.op = "u8to64_le" => util.out = LeSum(util.buf, util.start, util.len)
    /\ util.op = "load_int_le" =>
          /\ util.out = LeSum(util.buf, util.start, util.len)
          /\ util.out = load_int_le(util.buf, util.start, util.len)

\* a full word loaded on a big-endian host from bytes that are not a palindrome
C26_Witness ==
    /\ util.op = "load_int_le"
    /\ util.endian = "big"
    /\ util.len = 8
    /\ util.start = 2
    /\ util.buf[3] # util.buf[10]
    /\ util.out = LeSum(util.buf, 2, 8)

\* C28: a write of n bytes on a hasher holding t pending bytes, with needed = 8 - t
\* (0 when t = 0) and n >= needed, compresses in its main loop exactly
\* floor((n - needed) / 8) words, read from the data at the offsets needed,
\* needed + 8, ..., after the word that completes the pending bytes (if any); the
\* (n - needed) mod 8 bytes that remain become the tail.
C28_WordCount ==
    [][LET t      == hasher.ntail
           n      == pos' - pos
           needed == IF t # 0 THEN 8 - t ELSE 0
           data   == SubSeq(input, pos + 1, pos')
           words  == (n - needed) \div 8
           rest   == (n - needed) % 8
           st1    == IF t # 0 THEN FoldWords(S, hasher.state, StepStream, 0, 1)
                     ELSE hasher.state
       IN  (last' = "write" /\ n >= needed) =>
              /\ hasher'.state = FoldWords(S, st1, SubSeq(data, needed + 1, n), 0, words)
              /\ hasher'.ntail = rest
              /\ hasher'.tail = LeSum(data, needed + 8 * words, rest)]_vars

\* a write that completed pending bytes, compressed a word of its own and kept two bytes
C28_Witness ==
    /\ last = "write"
    /\ pos = 18
    /\ hasher.ntail = 2
    /\ hasher.state = FoldWords(S, new_with_keys(hasher.k0, hasher.k1).state, Fed, 0, 2)
    /\ hasher.tail = LeSum(input, 16, 2)
    /\ input[18] # 0

\* the wait or wait_until call of thread t returns in this step
WaitReturns(t) ==
    /\ threads'[t].pc = "idle"
    /\ threads[t].pc \in {"parked", "notified"} \/ StartsWait(t)

\* C27: wait_until (like wait) returns true only in a step that finds the event
\* signaled and leaves it non-signaled, one signal taken; it returns false only when
\* its deadline passes while it is parked, and then it leaves the value as it finds
\* it, so a signal set while the waiter timed out is still there for the next waiter.
C27_TimedWait ==
    [][\A t \in Threads : WaitReturns(t) =>
          /\ threads'[t].result =>
                /\ event.value /\ ~event'.value
                /\ event'.released = event.released + 1
          /\ ~threads'[t].result =>
                /\ threads[t].timed /\ threads[t].pc = "parked"
                /\ event'.lastop = "timeout"
                /\ event'.value = event.value
                /\ event'.released = event.released]_vars

\* a wait_until has just timed out between the store and the notify of a set call,
\* and the signal of that set is still there
C27_Witness ==
    /\ event.lastop = "timeout"
    /\ event.value
    /\ event.sets = 1
    /\ event.released = 0
    /\ ~event.created
    /\ \E t, u \in Threads :
          /\ threads[t].pc = "idle" /\ threads[t].timed /\ ~threads[t].result
          /\ threads[u].pc = "notify"

\* thread t is blocked in a wait call without deadline
BlockedInWait(t) == threads[t].pc \in {"parked", "notified"} /\ ~threads[t].timed

\* C29: under a fair scheduler, whenever the event is signaled while a thread is
\* blocked in wait, a wait takes the signal or a reset clears it: the event does not
\* stay signaled for ever with a thread blocked in wait, also when threads in
\* wait_until and threads in wait are blocked together.
C29_NoLostWakeup ==
    (event.value /\ \E t \in Threads : BlockedInWait(t)) ~> ~event.value

\* the event is signaled by a set that has not notified yet, with a thread parked in
\* wait and another parked in wait_until
C29_Witness ==
    /\ event.value
    /\ event.lastop = "set"
    /\ \E t, u, w \in Threads :
          /\ threads[t].pc = "parked" /\ BlockedInWait(t)
          /\ threads[u].pc = "parked" /\ threads[u].timed
          /\ threads[w].pc = "notify"

=============================================================================
